---------------------------- MODULE Spec2Model ----------------------------
(***************************************************************************)
(* TokenManager (src/src/clients/token-manager.ts): the cache / store /    *)
(* refresh decision procedure of getAccessToken(), the single-flight       *)
(* connect guard of ensureConnected() and close().                         *)
(*                                                                         *)
(* Scheduling is that of one JavaScript event loop: a handler runs to its  *)
(* next I/O suspension point without interleaving.  Every action below is  *)
(* one such run: the start of a call, or the completion of one pending     *)
(* I/O operation (dynamic import, connect(), findOne, updateOne, the       *)
(* refresh POST, close()) together with every continuation it releases.    *)
(* Times are unix milliseconds, as Date.now() gives them.                  *)
(***************************************************************************)
EXTENDS Integers, FiniteSets

VARIABLES
    now,          \* Date.now()
    ticks,        \* number of clock advances so far (bounds the model)
    cache,        \* this.cache : CachedToken | null
    mongoImported,\* module flag mongoImported
    mongoClient,  \* this.mongoClient : 0 is null, otherwise the handle's id
    connecting,   \* this.connecting : 0 is null, otherwise the attempt's id
    attPhase,     \* where the in-flight attempt is suspended
    nAttempts,    \* connection attempts started so far
    hstate,       \* per handle: what became of its connect()
    closing,      \* per handle: close() calls suspended at await handle.close()
    nCloses,      \* close() calls made so far (bounds the model)
    store,        \* the tokens document of companyId, or NoDoc
    mongoInstalled,\* whether import('mongodb') can succeed in this build
    nIssued,      \* successful refresh responses so far
    nCalls,       \* getAccessToken() calls made so far (bounds the model)
    calls         \* per caller: the state of its getAccessToken() call

vars == <<now, ticks, cache, mongoImported, mongoClient, connecting, attPhase,
          nAttempts, hstate, closing, nCloses, store, mongoInstalled,
          nIssued, nCalls, calls>>

connVars == <<mongoImported, mongoClient, connecting, attPhase, nAttempts, hstate>>

----------------------------------------------------------------------------
(* Program constants *)

TOKEN_CACHE_TTL_MS == 1200000
EXPIRY_SKEW_MS == 60000
DEFAULT_EXPIRES_IN == 86400

(* Bounds of the model *)

MaxTicks == 2
MaxCalls == 2
MaxAttempts == 2
MaxIssued == 1
MaxCloses == 1

\* Two concurrent callers of getAccessToken().
Procs == {1, 2}
Handles == 1..MaxAttempts

\* The instant the model starts at, and the clock advances it can take:
\* one skew, and what is left of the cache TTL after one skew.
StartTime == 10000000
Steps == {EXPIRY_SKEW_MS, TOKEN_CACHE_TTL_MS - EXPIRY_SKEW_MS}

Absent == -1        \* a field that is undefined
NoCache == [accessToken |-> -1, refreshToken |-> -1, expiresAt |-> -1, fetchedAt |-> -1]
NoDoc == [access_token |-> -1, refresh_token |-> -1, expires_in |-> -1, updatedAt |-> -2]

\* Tokens are numbers; 0 is the empty or missing string (falsy in JavaScript).
TokenDoc(at, rt, ein, upd) ==
    [access_token |-> at, refresh_token |-> rt, expires_in |-> ein, updatedAt |-> upd]

\* Store contents the program can be started on: no record, a record that
\* reaches E - 60 s after one skew and is past it after any longer advance,
\* and a record with an empty access token and without expires_in, updatedAt.
InitDocs ==
    { NoDoc,
      TokenDoc(1, 1, 120, StartTime),
      TokenDoc(0, 1, Absent, Absent) }

\* What a 2xx answer of the token endpoint can carry.
\* The n-th answer: a short-lived token, one without refresh_token and
\* expires_in, one without access_token and with an expires_in of 0.
Responses(n) ==
    { [access_token |-> 10 + n, refresh_token |-> 10 + n, expires_in |-> 120],
      [access_token |-> 10 + n, refresh_token |-> 0, expires_in |-> Absent],
      [access_token |-> 0, refresh_token |-> 10 + n, expires_in |-> 0] }

----------------------------------------------------------------------------
(* Pure expressions of the code *)

\* x || d
OrDefault(x, d) == IF x = Absent \/ x = 0 THEN d ELSE x

\* The freshness window with its boundary instant let in.
IsFreshInclusive(c, t) == (t - c.fetchedAt) <= TOKEN_CACHE_TTL_MS

IsFresh(c, t) == (t - c.fetchedAt) < TOKEN_CACHE_TTL_MS

\* The cached token taken as valid whatever its expiry.
CacheTokenValidAlways(c, t) == TRUE

CacheTokenValid(c, t) == t < c.expiresAt - EXPIRY_SKEW_MS

\* The null check left out.
DocMissingIgnored(doc) == FALSE

\* !doc
DocMissing(doc) == doc = NoDoc

\* No try/catch around the refresh of the cached token.
CatchesNothing(via) == FALSE

\* A try/catch around every refresh, followed by readTokenFromDb().
CatchesEverything(via) == TRUE

\* The try/catch around the refresh of the cached token: the error is logged
\* and the call goes on to readTokenFromDb(); readTokenFromDb() has none.
CatchesRefreshError(via) == via = "cache"

DocUpdatedAt(doc, t) == IF doc.updatedAt = Absent THEN t ELSE doc.updatedAt

DocExpiresAt(doc, t) ==
    DocUpdatedAt(doc, t) + OrDefault(doc.expires_in, DEFAULT_EXPIRES_IN) * 1000

DocExpired(doc, t) == t > DocExpiresAt(doc, t) - EXPIRY_SKEW_MS

\* The cache entry readTokenFromDb() writes for a record it serves at t.
ServedToken(doc, t) ==
    [accessToken |-> doc.access_token,
     refreshToken |-> doc.refresh_token,
     expiresAt |-> DocExpiresAt(doc, t),
     fetchedAt |-> t]

\* The entry of a refresh that leaves fetchedAt unset.
RefreshedTokenUnstamped(data, rt, t) ==
    [accessToken |-> data.access_token,
     refreshToken |-> OrDefault(data.refresh_token, rt),
     expiresAt |-> t + OrDefault(data.expires_in, DEFAULT_EXPIRES_IN) * 1000,
     fetchedAt |-> 0]

\* The cache entry refreshToken(rt) writes for the answer data it processes
\* at t.
RefreshedToken(data, rt, t) ==
    [accessToken |-> data.access_token,
     refreshToken |-> OrDefault(data.refresh_token, rt),
     expiresAt |-> t + OrDefault(data.expires_in, DEFAULT_EXPIRES_IN) * 1000,
     fetchedAt |-> t]

----------------------------------------------------------------------------
(* The state of one getAccessToken() call *)

IdleCall ==
    [pc |-> "idle", via |-> "none", rt |-> -1, acc |-> -1, wrt |-> -1,
     life |-> -1, wAt |-> -1, client |-> 0, result |-> -1, err |-> "none",
     nRef |-> 0, nRead |-> 0, nWrite |-> 0, ev |-> "none", seen |-> -1]

\* The call settles: with a token (err = "none") or with an error.
Done(c, tok, e) ==
    [c EXCEPT !.pc = "done", !.rt = -1, !.acc = -1, !.wrt = -1, !.life = -1,
              !.wAt = -1, !.client = 0, !.result = tok, !.err = e,
              !.seen = -1]

Init ==
    /\ now = StartTime
    /\ ticks = 0
    /\ cache = NoCache
    /\ mongoImported = FALSE
    /\ mongoClient = 0
    /\ connecting = 0
    /\ attPhase = "none"
    /\ nAttempts = 0
    /\ hstate = [h \in Handles |-> "unused"]
    /\ closing = [h \in Handles |-> 0]
    /\ nCloses = 0
    /\ store \in InitDocs
    /\ mongoInstalled \in BOOLEAN
    /\ nIssued = 0
    /\ nCalls = 0
    /\ calls = [p \in Procs |-> IdleCall]

Tick ==
    /\ ticks < MaxTicks
    /\ \E d \in Steps : now' = now + d
    /\ ticks' = ticks + 1
    /\ UNCHANGED <<cache, mongoImported, mongoClient, connecting, attPhase,
                   nAttempts, hstate, closing, nCloses, store,
                   mongoInstalled, nIssued, nCalls, calls>>

----------------------------------------------------------------------------
(* ensureConnected() and what its caller does with the answer *)

\* A connection error answered with the cached token instead of thrown.
FailServesCache(c, kind, e) ==
    Done([c EXCEPT !.ev = "connFail"], cache.accessToken, "none")

\* refreshToken() without its try/catch: the write-through error is rethrown.
FailRethrown(c, kind, e) == Done([c EXCEPT !.ev = "connFail"], -1, e)

\* ensureConnected() or client.db() threw: readTokenFromDb() lets the error
\* through, refreshToken() logs it and returns the token.
Fail(c, kind, e) ==
    IF kind = "read"
    THEN Done([c EXCEPT !.ev = "connFail"], -1, e)
    ELSE Done([c EXCEPT !.ev = "writeFail"], c.acc, "none")

\* The caller has a client: readTokenFromDb issues findOne on it, refreshToken
\* issues updateOne (updatedAt: new Date() is evaluated here).  A null client
\* makes client.db() throw.  seen records how many refresh answers had been
\* processed when the findOne was issued.
Issue(c, kind, h) ==
    IF h = 0 THEN Fail(c, kind, "TypeError")
    ELSE IF kind = "read"
    THEN [c EXCEPT !.pc = "find", !.client = h, !.nRead = @ + 1,
                   !.seen = nIssued]
    ELSE [c EXCEPT !.pc = "update", !.client = h, !.nWrite = @ + 1, !.wAt = now]

Wait(c, kind) ==
    [c EXCEPT !.pc = IF kind = "read" THEN "connR" ELSE "connW"]

WaitKind(c) == IF c.pc = "connR" THEN "read" ELSE "write"

Waiting(c) == c.pc \in {"connR", "connW"}

\* ensureConnected() without the test of this.connecting.
EnsureConnectedUnguarded(p, c, kind) ==
    IF mongoClient # 0
    THEN /\ calls' = [calls EXCEPT ![p] = Issue(c, kind, mongoClient)]
         /\ UNCHANGED connVars
    ELSE /\ nAttempts < MaxAttempts
         /\ nAttempts' = nAttempts + 1
         /\ connecting' = nAttempts + 1
         /\ calls' = [calls EXCEPT ![p] = Wait(c, kind)]
         /\ IF mongoImported
            THEN /\ mongoClient' = nAttempts + 1
                 /\ hstate' = [hstate EXCEPT ![nAttempts + 1] = "pending"]
                 /\ attPhase' = "connect"
            ELSE /\ attPhase' = "import"
                 /\ UNCHANGED <<mongoClient, hstate>>
         /\ UNCHANGED mongoImported

\* Caller p, whose call state is c so far, calls ensureConnected().
EnsureConnected(p, c, kind) ==
    IF mongoClient # 0
    THEN /\ calls' = [calls EXCEPT ![p] = Issue(c, kind, mongoClient)]
         /\ UNCHANGED connVars
    ELSE IF connecting # 0
    THEN /\ calls' = [calls EXCEPT ![p] = Wait(c, kind)]
         /\ UNCHANGED connVars
    ELSE /\ nAttempts < MaxAttempts
         /\ nAttempts' = nAttempts + 1
         /\ connecting' = nAttempts + 1
         /\ calls' = [calls EXCEPT ![p] = Wait(c, kind)]
         /\ IF mongoImported
            THEN /\ mongoClient' = nAttempts + 1
                 /\ hstate' = [hstate EXCEPT ![nAttempts + 1] = "pending"]
                 /\ attPhase' = "connect"
            ELSE /\ attPhase' = "import"
                 /\ UNCHANGED <<mongoClient, hstate>>
         /\ UNCHANGED mongoImported

\* The in-flight attempt settles: every caller awaiting it resumes, and the
\* creator's finally clears the marker.
Resolved(h) ==
    [p \in Procs |-> IF Waiting(calls[p])
                     THEN Issue(calls[p], WaitKind(calls[p]), h)
                     ELSE calls[p]]

Rejected ==
    [p \in Procs |-> IF Waiting(calls[p])
                     THEN Fail(calls[p], WaitKind(calls[p]), "Conn")
                     ELSE calls[p]]

\* await getMongoClient() settles (the dynamic import).
AttemptImported ==
    /\ attPhase = "import"
    /\ IF mongoInstalled
       THEN /\ mongoImported' = TRUE
            /\ mongoClient' = connecting
            /\ hstate' = [hstate EXCEPT ![connecting] = "pending"]
            /\ attPhase' = "connect"
            /\ UNCHANGED <<connecting, calls>>
       ELSE /\ connecting' = 0
            /\ attPhase' = "none"
            /\ calls' = Rejected
            /\ UNCHANGED <<mongoImported, mongoClient, hstate>>
    /\ UNCHANGED <<now, ticks, cache, nAttempts, closing, nCloses,
                   store, mongoInstalled, nIssued, nCalls>>

\* await this.mongoClient.connect() settles.
ConnectSettled ==
    /\ attPhase = "connect"
    /\ \E ok \in BOOLEAN :
          IF ok
          THEN /\ hstate' = [hstate EXCEPT ![connecting] = "connected"]
               /\ calls' = Resolved(mongoClient)
          ELSE /\ hstate' = [hstate EXCEPT ![connecting] = "failed"]
               /\ calls' = Rejected
    /\ connecting' = 0
    /\ attPhase' = "none"
    /\ UNCHANGED <<now, ticks, cache, mongoImported, mongoClient, nAttempts,
                   closing, nCloses, store, mongoInstalled, nIssued,
                   nCalls>>

----------------------------------------------------------------------------
(* getAccessToken(), readTokenFromDb(), refreshToken() *)

\* getAccessToken() called by p while fewer than n calls of it were made.
GetAccessTokenUpTo(p, n) ==
    /\ calls[p].pc = "idle"
    /\ \A q \in Procs : q < p => calls[q].pc # "idle"
    /\ nCalls < n
    /\ nCalls' = nCalls + 1
    /\ LET c0 == IdleCall IN
       IF cache # NoCache /\ IsFresh(cache, now)
       THEN IF CacheTokenValid(cache, now)
            THEN /\ calls' = [calls EXCEPT ![p] =
                        Done([c0 EXCEPT !.via = "cache", !.ev = "cacheHit"],
                             cache.accessToken, "none")]
                 /\ UNCHANGED connVars
            ELSE /\ calls' = [calls EXCEPT ![p] =
                        [c0 EXCEPT !.pc = "refreshing", !.via = "cache",
                                   !.rt = cache.refreshToken, !.nRef = 1,
                                   !.ev = "cacheRefresh"]]
                 /\ UNCHANGED connVars
       ELSE EnsureConnected(p, [c0 EXCEPT !.via = "db"], "read")
    /\ UNCHANGED <<now, ticks, cache, closing, nCloses, store,
                   mongoInstalled, nIssued>>

GetAccessToken(p) == GetAccessTokenUpTo(p, MaxCalls)

\* await axios.post(...) settles.
RefreshDone(p) ==
    /\ calls[p].pc = "refreshing"
    /\ LET c == calls[p] IN
       \/ /\ CatchesRefreshError(c.via)
          /\ EnsureConnected(p, [c EXCEPT !.via = "db", !.rt = -1, !.ev = "refreshFail"], "read")
          /\ UNCHANGED <<cache, nIssued>>
       \/ /\ ~CatchesRefreshError(c.via)
          /\ calls' = [calls EXCEPT ![p] = Done([c EXCEPT !.ev = "refreshFail"], -1, "Refresh")]
          /\ UNCHANGED <<cache, nIssued, connVars>>
       \/ /\ nIssued < MaxIssued
          /\ nIssued' = nIssued + 1
          /\ \E data \in Responses(nIssued + 1) :
                /\ cache' = RefreshedToken(data, c.rt, now)
                /\ EnsureConnected(p, [c EXCEPT !.acc = data.access_token,
                                                !.wrt = OrDefault(data.refresh_token, c.rt),
                                                !.life = OrDefault(data.expires_in, DEFAULT_EXPIRES_IN),
                                                !.ev = "refreshOk"], "write")
    /\ UNCHANGED <<now, ticks, closing, nCloses, store,
                   mongoInstalled, nCalls>>

\* await collection.findOne(...) settles.
FindDone(p) ==
    /\ calls[p].pc = "find"
    /\ LET c == calls[p] IN
       \/ /\ calls' = [calls EXCEPT ![p] = Done([c EXCEPT !.ev = "findFail"], -1, "Conn")]
          /\ UNCHANGED cache
       \/ /\ DocMissing(store)
          /\ calls' = [calls EXCEPT ![p] = Done([c EXCEPT !.ev = "notFound"], -1, "NotFound")]
          /\ UNCHANGED cache
       \/ /\ ~DocMissing(store)
          /\ LET c1 == [c EXCEPT !.client = 0, !.seen = -1] IN
             IF DocExpired(store, now)
             THEN /\ calls' = [calls EXCEPT ![p] =
                         [c1 EXCEPT !.pc = "refreshing", !.rt = store.refresh_token,
                                    !.nRef = @ + 1, !.ev = "docRefresh"]]
                  /\ UNCHANGED cache
             ELSE /\ cache' = ServedToken(store, now)
                  /\ calls' = [calls EXCEPT ![p] =
                         Done([c1 EXCEPT !.ev = "docServed"], store.access_token, "none")]
    /\ UNCHANGED <<now, ticks, connVars, closing, nCloses, store,
                   mongoInstalled, nIssued, nCalls>>

\* await updateOne(...) settles; the filter matches an existing document only.
UpdateDone(p) ==
    /\ calls[p].pc = "update"
    /\ LET c == calls[p] IN
       \/ /\ store' = IF store = NoDoc THEN NoDoc
                      ELSE [store EXCEPT !.access_token = c.acc,
                                         !.refresh_token = c.wrt,
                                         !.expires_in = c.life,
                                         !.updatedAt = c.wAt]
          /\ calls' = [calls EXCEPT ![p] = Done([c EXCEPT !.ev = "writeOk"], c.acc, "none")]
       \/ /\ calls' = [calls EXCEPT ![p] = Fail(c, "write", "Write")]
          /\ UNCHANGED store
    /\ UNCHANGED <<now, ticks, cache, connVars, closing, nCloses,
                   mongoInstalled, nIssued, nCalls>>

----------------------------------------------------------------------------
(* The caller takes the outcome of its call. *)

Return(p) ==
    /\ calls[p].pc = "done"
    /\ calls' = [calls EXCEPT ![p] = IdleCall]
    /\ UNCHANGED <<now, ticks, cache, connVars, closing, nCloses,
                   store, mongoInstalled, nIssued, nCalls>>

----------------------------------------------------------------------------
(* close() *)

\* close() called while fewer than n calls of it were made.
CloseUpTo(n) ==
    /\ nCloses < n
    /\ nCloses' = nCloses + 1
    /\ IF mongoClient # 0
       THEN closing' = [closing EXCEPT ![mongoClient] = @ + 1]
       ELSE UNCHANGED closing
    /\ UNCHANGED <<now, ticks, cache, connVars, store, mongoInstalled, nIssued,
                   nCalls, calls>>

Close == CloseUpTo(MaxCloses)

\* await this.mongoClient.close() settles for a call made on handle h; a
\* rejection skips the assignment.
CloseDone(h) ==
    /\ closing[h] > 0
    /\ closing' = [closing EXCEPT ![h] = @ - 1]
    /\ \/ mongoClient' = 0
       \/ UNCHANGED mongoClient
    /\ UNCHANGED <<now, ticks, cache, mongoImported, connecting, attPhase,
                   nAttempts, hstate, nCloses, store, mongoInstalled,
                   nIssued, nCalls, calls>>

----------------------------------------------------------------------------

\* The tokens collection belongs to another application, which removes the
\* record of companyId.
RecordRemoved ==
    /\ store # NoDoc
    /\ store' = NoDoc
    /\ UNCHANGED <<now, ticks, cache, connVars, closing, nCloses,
                   mongoInstalled, nIssued, nCalls, calls>>

----------------------------------------------------------------------------

Next ==
    \/ Tick
    \/ \E p \in Procs : GetAccessToken(p)
    \/ \E p \in Procs : RefreshDone(p)
    \/ \E p \in Procs : FindDone(p)
    \/ \E p \in Procs : UpdateDone(p)
    \/ \E p \in Procs : Return(p)
    \/ AttemptImported
    \/ ConnectSettled
    \/ Close
    \/ \E h \in Handles : CloseDone(h)

Spec == Init /\ [][Next]_vars

\* The program with one more call of getAccessToken() and of close(), on a
\* store whose record another application can remove.
NextShared ==
    \/ Tick
    \/ \E p \in Procs : GetAccessTokenUpTo(p, MaxCalls + 1)
    \/ \E p \in Procs : RefreshDone(p)
    \/ \E p \in Procs : FindDone(p)
    \/ \E p \in Procs : UpdateDone(p)
    \/ \E p \in Procs : Return(p)
    \/ AttemptImported
    \/ ConnectSettled
    \/ CloseUpTo(MaxCloses + 1)
    \/ \E h \in Handles : CloseDone(h)
    \/ RecordRemoved

SpecShared == Init /\ [][NextShared]_vars

TypeOK ==
    /\ now \in Int
    /\ mongoClient \in 0..MaxAttempts
    /\ connecting \in 0..MaxAttempts
    /\ (connecting # 0) <=> (attPhase # "none")
    /\ \A p \in Procs : calls[p].pc \in
          {"idle", "refreshing", "connR", "connW", "find", "update", "done"}

----------------------------------------------------------------------------
(* Shorthands of the claims *)

\* Caller p starts a getAccessToken() call in this step.
Starts(p) == calls[p].pc = "idle" /\ calls'[p].pc # "idle"

\* Caller p's findOne completes in this step and delivers an answer.
ReadAnswered(p) ==
    /\ calls[p].pc = "find"
    /\ calls'[p].pc # "find"
    /\ ~(calls'[p].pc = "done" /\ calls'[p].err = "Conn")

\* Caller p's refresh request completes in this step, with a 2xx answer or not.
RefreshSucceeded(p) ==
    calls[p].pc = "refreshing" /\ calls'[p] # calls[p] /\ nIssued' = nIssued + 1

RefreshFailed(p) ==
    calls[p].pc = "refreshing" /\ calls'[p] # calls[p] /\ nIssued' = nIssued

\* Caller p calls ensureConnected() in this step.
Connects(p) ==
    /\ calls[p].pc \in {"idle", "refreshing"}
    /\ calls'[p].pc \in {"connR", "connW", "find", "update"}

\* The handle a caller that left ensureConnected() got (0: none).
Got(c) == IF c.pc \in {"find", "update"} THEN c.client ELSE 0

TwentyMinutes == 20 * 60 * 1000
SixtySeconds == 60 * 1000

----------------------------------------------------------------------------
(* C1: a call is answered with the cached access token, with no store read,  *)
(* no store write, no connection attempt, no refresh request and the cache   *)
(* unchanged, exactly when a cache entry exists with now - fetchedAt < 20    *)
(* minutes and now < expiresAt - 60 seconds; in every other case the call    *)
(* is not answered in the step that starts it.                               *)
C1_CacheHitExactly ==
    [][\A p \in Procs : Starts(p) =>
          LET hit == /\ cache # NoCache
                     /\ now - cache.fetchedAt < TwentyMinutes
                     /\ now < cache.expiresAt - SixtySeconds
          IN  IF hit
              THEN /\ calls'[p].pc = "done"
                   /\ calls'[p].err = "none"
                   /\ calls'[p].result = cache.accessToken
                   /\ calls'[p].nRef = 0
                   /\ calls'[p].nRead = 0
                   /\ calls'[p].nWrite = 0
                   /\ UNCHANGED <<cache, store, connVars, nIssued>>
              ELSE /\ calls'[p].pc # "done"
                   /\ \/ calls'[p].nRef + calls'[p].nRead > 0
                      \/ calls'[p].pc = "connR"
       ]_vars

C1_Witness ==
    \E p \in Procs : /\ calls[p].pc = "done"
                     /\ calls[p].ev = "cacheHit"
                     /\ calls[p].result = cache.accessToken
                     /\ calls[p].nRef + calls[p].nRead + calls[p].nWrite = 0

(* C2: single-flight connect.  A connection attempt is started only when no  *)
(* attempt is in flight and no caller is awaiting one, so the callers that   *)
(* called ensureConnected() while there was no connection all await the one  *)
(* attempt; they leave it in the same step with the same handle, which is    *)
(* the handle that attempt created (or with none, when it failed).           *)
C2_SingleFlight ==
    [][/\ nAttempts' # nAttempts =>
             /\ nAttempts' = nAttempts + 1
             /\ connecting = 0
             /\ \A q \in Procs : ~Waiting(calls[q])
       /\ \A p \in Procs : Waiting(calls'[p]) => connecting' # 0
       /\ \A p, q \in Procs :
             (Waiting(calls[p]) /\ Waiting(calls[q]) /\ ~Waiting(calls'[p])) =>
                 /\ ~Waiting(calls'[q])
                 /\ Got(calls'[p]) = Got(calls'[q])
                 /\ Got(calls'[p]) \in {0, connecting}
      ]_vars

C2_Witness ==
    /\ \A p \in Procs : Waiting(calls[p])
    /\ nAttempts = 1
    /\ connecting = 1

(* C3: once a connection attempt settles the in-flight marker is cleared,    *)
(* and after a failed attempt the next ensureConnected() call starts a fresh *)
(* attempt and awaits it rather than getting the failed attempt's handle.    *)
C3_FreshAttemptAfterFailure ==
    [][/\ (attPhase # "none" /\ attPhase' = "none") => connecting' = 0
       /\ \A p \in Procs :
             (/\ Connects(p)
              /\ nAttempts > 0
              /\ connecting = 0
              /\ hstate[nAttempts] \in {"failed", "unused"}) =>
                 /\ nAttempts' = nAttempts + 1
                 /\ Waiting(calls'[p])
      ]_vars

(* C4: when the refresh made with the cached refresh token fails, the call   *)
(* raises no error in that step: it goes on to read the record (it awaits    *)
(* the connection or has issued its one findOne), the cache is unchanged,    *)
(* and a call ends with a refresh error only after it has read the store.    *)
C4_CacheRefreshFailureFallsThrough ==
    [][\A p \in Procs :
          /\ (RefreshFailed(p) /\ calls[p].via = "cache") =>
                /\ calls'[p].err = "none"
                /\ calls'[p].pc \in {"connR", "find"}
                /\ calls'[p].pc = "find" => calls'[p].nRead = 1
                /\ calls'[p].via = "db"
                /\ cache' = cache
          /\ (calls'[p].pc = "done" /\ calls'[p].err = "Refresh") =>
                calls'[p].nRead = 1
      ]_vars

C4_Witness ==
    \E p \in Procs : calls[p].pc = "find" /\ calls[p].nRef = 1

(* C5: after a successful refresh the cache holds the refreshed token; the   *)
(* write-through that follows, whether it fails at connecting, at a null     *)
(* client or at updateOne, ends the call with that token and no error and    *)
(* leaves the cache as it is; until then only another call's store read or   *)
(* refresh changes the cache.                                                *)
C5_WriteFailureStillReturnsToken ==
    [][\A p \in Procs :
          /\ RefreshSucceeded(p) =>
                /\ cache'.accessToken = calls'[p].acc
                /\ calls'[p].pc \in {"connW", "update"}
          /\ (calls[p].pc \in {"connW", "update"} /\ calls'[p].pc # calls[p].pc) =>
                \/ calls[p].pc = "connW" /\ calls'[p].pc = "update"
                \/ /\ calls'[p].pc = "done"
                   /\ calls'[p].err = "none"
                   /\ calls'[p].result = calls[p].acc
                   /\ cache' = cache
          /\ (calls[p].pc \in {"connW", "update"} /\ cache' # cache) =>
                \E q \in Procs \ {p} :
                    calls[q].pc \in {"find", "refreshing"} /\ calls'[q] # calls[q]
      ]_vars

C5_Witness ==
    \E p \in Procs : /\ calls[p].pc = "done"
                     /\ calls[p].ev = "writeFail"
                     /\ calls[p].err = "none"
                     /\ calls[p].result > 0
                     /\ cache.accessToken = calls[p].result

(* C6: on the store path, a record that is present and near or past expiry  *)
(* (now >= E - 60 s, E the record's expiry instant) makes the call issue a   *)
(* refresh request with the stored refresh token; when that request          *)
(* succeeds the call returns the access token of the answer, and when it     *)
(* fails the call ends with the refresh error.                               *)
C6_StoreRefresh ==
    [][\A p \in Procs :
          /\ (ReadAnswered(p) /\ store # NoDoc
                 /\ now >= DocExpiresAt(store, now) - SixtySeconds) =>
                /\ calls'[p].pc = "refreshing"
                /\ calls'[p].rt = store.refresh_token
                /\ calls'[p].nRef = calls[p].nRef + 1
          /\ (RefreshSucceeded(p) /\ calls[p].via = "db") =>
                calls'[p].acc = cache'.accessToken
          /\ (calls[p].pc \in {"connW", "update"} /\ calls'[p].pc = "done") =>
                calls'[p].result = calls[p].acc /\ calls'[p].err = "none"
          /\ (RefreshFailed(p) /\ calls[p].via = "db") =>
                calls'[p].pc = "done" /\ calls'[p].err = "Refresh"
      ]_vars

(* C6 away from the boundary instant: the same statement for now > E - 60 s. *)
C6_StoreRefreshPastBoundary ==
    [][\A p \in Procs :
          /\ (ReadAnswered(p) /\ store # NoDoc
                 /\ now > DocExpiresAt(store, now) - SixtySeconds) =>
                /\ calls'[p].pc = "refreshing"
                /\ calls'[p].rt = store.refresh_token
                /\ calls'[p].nRef = calls[p].nRef + 1
          /\ (RefreshSucceeded(p) /\ calls[p].via = "db") =>
                calls'[p].acc = cache'.accessToken
          /\ (calls[p].pc \in {"connW", "update"} /\ calls'[p].pc = "done") =>
                calls'[p].result = calls[p].acc /\ calls'[p].err = "none"
          /\ (RefreshFailed(p) /\ calls[p].via = "db") =>
                calls'[p].pc = "done" /\ calls'[p].err = "Refresh"
      ]_vars

(* C7: a store read that finds no record ends the call with the NotFound     *)
(* error, with no refresh request, no store write and the cache unchanged.   *)
C7_NotFound ==
    [][\A p \in Procs :
          (ReadAnswered(p) /\ store = NoDoc) =>
              /\ calls'[p].pc = "done"
              /\ calls'[p].err = "NotFound"
              /\ calls'[p].result = -1
              /\ calls'[p].nRef = calls[p].nRef
              /\ calls'[p].nWrite = 0
              /\ UNCHANGED <<cache, store, nIssued>>
      ]_vars

C7_Witness ==
    \E p \in Procs : /\ calls[p].pc = "done"
                     /\ calls[p].err = "NotFound"
                     /\ store = NoDoc

(* C8: at both decision points the token is treated as needing refresh iff   *)
(* now >= E - 60 s: for a fresh cache entry with E its expiresAt, and for a  *)
(* record read from the store with E derived from the record; at exactly     *)
(* now = E - 60 s the token is refreshed and not served.                     *)
C8_SameInclusiveBoundary ==
    [][\A p \in Procs :
          /\ (Starts(p) /\ cache # NoCache /\ now - cache.fetchedAt < TwentyMinutes) =>
                (calls'[p].pc = "refreshing" <=> now >= cache.expiresAt - SixtySeconds)
          /\ (ReadAnswered(p) /\ store # NoDoc) =>
                (calls'[p].pc = "refreshing"
                    <=> now >= DocExpiresAt(store, now) - SixtySeconds)
      ]_vars

(* C9: a call that ends without an error returns a non-empty access token    *)
(* that is not past its expiry instant when it is returned.                  *)
C9_NeverEmptyOrExpired ==
    \A p \in Procs :
        (calls[p].pc = "done" /\ calls[p].err = "none") =>
            /\ calls[p].result > 0
            /\ cache.accessToken = calls[p].result => now <= cache.expiresAt

(* C10: a write-through stores the refreshed access and refresh token, and   *)
(* the expiry instant derived from the written record, updatedAt +           *)
(* expires_in, equals the expiresAt the refresh put in the cache for that    *)
(* token; a record loaded into the cache that carries both fields gets       *)
(* exactly updatedAt + expires_in as its expiresAt.                          *)
C10_RoundTrip ==
    [][\A p \in Procs :
          /\ (calls[p].pc = "update" /\ calls'[p].pc = "done"
                 /\ calls'[p].ev = "writeOk" /\ store # NoDoc) =>
                /\ store'.access_token = calls[p].acc
                /\ store'.refresh_token = calls[p].wrt
                /\ (cache.accessToken = calls[p].acc /\ calls[p].acc > 0) =>
                      store'.updatedAt + store'.expires_in * 1000 = cache.expiresAt
          /\ (ReadAnswered(p) /\ calls'[p].pc = "done" /\ store # NoDoc
                 /\ store.updatedAt # Absent /\ store.expires_in > 0) =>
                /\ cache'.expiresAt = store.updatedAt + store.expires_in * 1000
                /\ cache'.accessToken = store.access_token
                /\ cache'.refreshToken = store.refresh_token
      ]_vars

----------------------------------------------------------------------------
\* Caller p's updateOne completes without an error in this step.
WriteCompleted(p) ==
    /\ calls[p].pc = "update"
    /\ calls'[p].pc = "done"
    /\ calls'[p].ev = "writeOk"

(* C11: the write-through is an upsert: when it completes without an error   *)
(* the store holds a record of the account with the new access token,        *)
(* refresh token, lifetime and update timestamp, whether or not a record     *)
(* existed before the write.                                                 *)
C11_WriteThroughUpserts ==
    [][\A p \in Procs : WriteCompleted(p) =>
          /\ store' # NoDoc
          /\ store'.access_token = calls[p].acc
          /\ store'.refresh_token = calls[p].wrt
          /\ store'.expires_in = calls[p].life
          /\ store'.updatedAt = calls[p].wAt
      ]_vars

\* Supporting C11: onto a record that exists the write-through puts the four
\* fields.
C11_UpdatesExistingRecord ==
    [][\A p \in Procs : (WriteCompleted(p) /\ store # NoDoc) =>
          /\ store'.access_token = calls[p].acc
          /\ store'.refresh_token = calls[p].wrt
          /\ store'.expires_in = calls[p].life
          /\ store'.updatedAt = calls[p].wAt
      ]_vars

----------------------------------------------------------------------------
\* The in-flight connection attempt rejects in this step: the import or
\* connect() failed.
AttemptRejects ==
    /\ attPhase # "none"
    /\ attPhase' = "none"
    /\ attPhase = "import" \/ hstate'[connecting] = "failed"

(* C12: when the store is unreachable at the moment a call must read the     *)
(* record (the connection attempt it awaits rejects, or its findOne fails),  *)
(* the call ends in this step with the connection error, returns no token    *)
(* and leaves the cache unchanged.                                           *)
C12_UnreachableStorePropagates ==
    [][\A p \in Procs :
          (\/ calls[p].pc = "connR" /\ AttemptRejects
           \/ calls[p].pc = "find" /\ calls'[p].ev = "findFail") =>
             /\ calls'[p].pc = "done"
             /\ calls'[p].err = "Conn"
             /\ calls'[p].result = -1
             /\ cache' = cache
      ]_vars

C12_Witness ==
    \E p \in Procs : /\ calls[p].pc = "done"
                     /\ calls[p].err = "Conn"
                     /\ calls[p].ev = "connFail"
                     /\ calls[p].result = -1
                     /\ cache # NoCache

----------------------------------------------------------------------------
\* close() is called in this step.
Closes == nCloses' = nCloses + 1

\* close() is called in this step and calls close() of handle h.
Releases(h) == Closes /\ closing'[h] = closing[h] + 1

\* A caller who awaited the connection attempt is answered by its success in
\* this step.
AttemptResolvesFor(p) ==
    /\ calls[p].pc \in {"connR", "connW"}
    /\ attPhase = "connect"
    /\ attPhase' = "none"
    /\ hstate'[connecting] = "connected"

(* C13: close() with no connection changes nothing; two calls of close(),    *)
(* one after the other or concurrent, call close() of the handle at most     *)
(* once, that is, never while a close() of that handle is in flight; and a   *)
(* call that needs the store after close() took the handle away gets a       *)
(* handle from the connection attempt it awaits, never null.                 *)
C13_CloseIdempotent ==
    [][/\ (Closes /\ mongoClient = 0) =>
             UNCHANGED <<connVars, closing, cache, store, calls>>
       /\ \A h \in Handles : Releases(h) => closing[h] = 0
       /\ \A p \in Procs : (AttemptResolvesFor(p) /\ calls[p].pc = "connR") =>
             (calls'[p].pc = "find" /\ calls'[p].client # 0)
      ]_vars

\* Supporting C13: close() with no connection changes nothing, and a handle
\* is taken away only while a close() of it or of an earlier handle is in
\* flight.
C13_NoOpWhenNotConnected ==
    [][/\ (Closes /\ mongoClient = 0) =>
             UNCHANGED <<connVars, closing, cache, store, calls>>
       /\ (mongoClient # 0 /\ mongoClient' = 0) =>
             \E h \in Handles : closing[h] > 0 /\ closing'[h] = closing[h] - 1
      ]_vars

----------------------------------------------------------------------------
\* The lifetime and the refresh token of an answer as the claim reads them.
TwentyFourHours == 24 * 60 * 60

AnswerLifetime(data) ==
    IF data.expires_in = Absent THEN TwentyFourHours ELSE data.expires_in

AnswerRefreshToken(data, r) ==
    IF data.refresh_token = Absent \/ data.refresh_token = 0
    THEN r ELSE data.refresh_token

(* C14: after a successful refresh with refresh token R, the cache and the   *)
(* record to be written carry the answer's access token, the answer's        *)
(* refresh token or R when it has none, and the answer's expires_in as       *)
(* lifetime, 86400 seconds only when the answer has no expires_in; the       *)
(* cached expiresAt is the instant the answer was processed plus that        *)
(* lifetime.                                                                 *)
C14_RefreshCarriesAnswer ==
    [][\A p \in Procs : RefreshSucceeded(p) =>
          \E data \in Responses(nIssued') :
             /\ cache'.accessToken = data.access_token
             /\ cache'.refreshToken = AnswerRefreshToken(data, calls[p].rt)
             /\ cache'.expiresAt = now + AnswerLifetime(data) * 1000
             /\ calls'[p].pc \in {"connW", "update"} =>
                   /\ calls'[p].acc = data.access_token
                   /\ calls'[p].wrt = AnswerRefreshToken(data, calls[p].rt)
                   /\ calls'[p].life = AnswerLifetime(data)
      ]_vars

\* Supporting C14: the same for the answers whose expires_in is not 0.
C14_RefreshCarriesNonZeroLifetime ==
    [][\A p \in Procs : RefreshSucceeded(p) =>
          \/ \E data \in Responses(nIssued') :
                /\ data.expires_in # 0
                /\ cache'.accessToken = data.access_token
                /\ cache'.refreshToken = AnswerRefreshToken(data, calls[p].rt)
                /\ cache'.expiresAt = now + AnswerLifetime(data) * 1000
                /\ calls'[p].pc \in {"connW", "update"} =>
                      /\ calls'[p].acc = data.access_token
                      /\ calls'[p].wrt = AnswerRefreshToken(data, calls[p].rt)
                      /\ calls'[p].life = AnswerLifetime(data)
          \/ \E data \in Responses(nIssued') :
                /\ data.expires_in = 0
                /\ cache'.accessToken = data.access_token
      ]_vars

----------------------------------------------------------------------------
\* The refresh a token pair stems from: 0 for the pairs of InitDocs, n for
\* the pair of the n-th refresh answer (Responses(n) puts 10 + n in it).
Generation(at, rt) ==
    LET m == IF at > rt THEN at ELSE rt
    IN  IF m > 10 THEN m - 10 ELSE 0

(* C15: a cache write never replaces a token obtained by a refresh with a    *)
(* token that was read from the store before that refresh completed: when a  *)
(* findOne issued before the refresh completed is answered after it, the     *)
(* entry it writes is not older than the entry of the refresh.               *)
C15_NoStaleOverwrite ==
    [][\A p \in Procs :
          (/\ ReadAnswered(p)
           /\ cache' # cache
           /\ cache # NoCache
           /\ Generation(cache.accessToken, cache.refreshToken) > calls[p].seen) =>
             Generation(cache'.accessToken, cache'.refreshToken) >=
                Generation(cache.accessToken, cache.refreshToken)
      ]_vars

\* Supporting C15: the same away from the instant expiresAt - 60 s of the
\* record read, the instant of C8.
C15_NoStaleOverwriteOffBoundary ==
    [][\A p \in Procs :
          (/\ ReadAnswered(p)
           /\ cache' # cache
           /\ cache # NoCache
           /\ Generation(cache.accessToken, cache.refreshToken) > calls[p].seen
           /\ now # cache'.expiresAt - SixtySeconds) =>
             Generation(cache'.accessToken, cache'.refreshToken) >=
                Generation(cache.accessToken, cache.refreshToken)
      ]_vars

----------------------------------------------------------------------------
\* Caller p finds in this step that a refresh is needed: it starts on a fresh
\* cache entry whose token is within 60 seconds of its expiry, or its findOne
\* is answered with a record past updatedAt + expires_in - 60 seconds.
DecidesRefresh(p) ==
    \/ /\ Starts(p)
       /\ cache # NoCache
       /\ now - cache.fetchedAt < TwentyMinutes
       /\ now >= cache.expiresAt - SixtySeconds
    \/ /\ ReadAnswered(p)
       /\ store # NoDoc
       /\ store.updatedAt # Absent
       /\ store.expires_in > 0
       /\ now > store.updatedAt + store.expires_in * 1000 - SixtySeconds

(* C16: refresh requests are not deduplicated: a call that finds a refresh   *)
(* needed issues its own request in that step, whether or not another        *)
(* call's request is in flight, so two requests can be in flight at once;    *)
(* a connection attempt is started only while none is in flight.             *)
C16_RefreshNotDeduplicated ==
    [][/\ \A p \in Procs : DecidesRefresh(p) =>
             /\ calls'[p].pc = "refreshing"
             /\ calls'[p].nRef = calls[p].nRef + 1
             /\ \A q \in Procs \ {p} : calls'[q] = calls[q]
       /\ nAttempts' # nAttempts =>
             /\ attPhase = "none"
             /\ connecting = 0
             /\ attPhase' # "none"
             /\ nAttempts' = nAttempts + 1
      ]_vars

\* Two refresh requests in flight at once, and no connection attempt.
C16_Witness ==
    /\ \A p \in Procs : calls[p].pc = "refreshing"
    /\ attPhase = "none"
    /\ nAttempts = 1

----------------------------------------------------------------------------
(* C17: the clock never goes back, and from one cache write to the next the  *)
(* fetchedAt of the cache entry does not decrease.                           *)
C17_FetchedAtMonotonic ==
    [][/\ now' >= now
       /\ (cache' # cache /\ cache # NoCache) =>
             cache'.fetchedAt >= cache.fetchedAt
      ]_vars

\* A refresh has replaced, at a later instant, an entry written by a store
\* read.
C17_Witness ==
    \E p \in Procs : /\ calls[p].via = "cache"
                     /\ calls[p].pc \in {"connW", "update"}
                     /\ cache.accessToken = calls[p].acc
                     /\ cache.fetchedAt > StartTime

----------------------------------------------------------------------------
\* Caller p's findOne is answered in this step with a record that p serves.
ReadServed(p) ==
    /\ ReadAnswered(p)
    /\ store # NoDoc
    /\ calls'[p].pc = "done"
    /\ calls'[p].err = "none"

\* A step of close(): it is called, or its await settles.
CloseStep == nCloses' # nCloses \/ closing' # closing

(* C18: the cache is written only when a store read completes with a record  *)
(* that is not near expiry (now < expiresAt - 60 seconds for the expiresAt   *)
(* derived from it) or when a refresh request succeeds; a failed refresh, a  *)
(* failed or empty store read, a write-through that completes or fails, and  *)
(* close() leave the cache as it was.                                        *)
C18_CacheWrittenOnlyBy ==
    [][/\ cache' # cache =>
             \E p \in Procs :
                \/ ReadServed(p) /\ now < cache'.expiresAt - SixtySeconds
                \/ RefreshSucceeded(p)
       /\ \A p \in Procs :
             (\/ RefreshFailed(p)
              \/ calls[p].pc = "find" /\ calls'[p].pc = "done" /\ calls'[p].err # "none"
              \/ calls[p].pc = "update" /\ calls'[p].pc # "update") =>
                cache' = cache
       /\ CloseStep => cache' = cache
      ]_vars

\* Supporting C18: the same with the instant expiresAt - 60 s, the instant of
\* C8, counted as not near expiry.
C18_CacheWrittenOnlyByUpToBoundary ==
    [][/\ cache' # cache =>
             \E p \in Procs :
                \/ ReadServed(p) /\ now <= cache'.expiresAt - SixtySeconds
                \/ RefreshSucceeded(p)
       /\ \A p \in Procs :
             (\/ RefreshFailed(p)
              \/ calls[p].pc = "find" /\ calls'[p].pc = "done" /\ calls'[p].err # "none"
              \/ calls[p].pc = "update" /\ calls'[p].pc # "update") =>
                cache' = cache
       /\ CloseStep => cache' = cache
      ]_vars

----------------------------------------------------------------------------
(* C19: one call issues at most two refresh requests, the first with the     *)
(* cached refresh token when it starts and the other with the stored one     *)
(* when its store read is answered, at most one store read and at most one   *)
(* store write; after a refresh request of the call succeeded the call       *)
(* issues no other request and no read.                                      *)
C19_RequestsPerCall ==
    [][\A p \in Procs :
          /\ calls'[p].nRef <= 2
          /\ calls'[p].nRead <= 1
          /\ calls'[p].nWrite <= 1
          /\ (calls'[p].nRef > calls[p].nRef /\ ~Starts(p)) =>
                /\ calls[p].pc = "find"
                /\ calls'[p].nRef = calls[p].nRef + 1
                /\ calls'[p].rt = store.refresh_token
          /\ (calls'[p].nRef > calls[p].nRef /\ Starts(p)) =>
                /\ calls'[p].nRef = 1
                /\ calls'[p].rt = cache.refreshToken
          /\ (RefreshSucceeded(p) \/ calls[p].pc \in {"connW", "update"}) =>
                /\ calls'[p].pc \in {"connW", "update", "done"}
                /\ calls'[p].nRef = calls[p].nRef
                /\ calls'[p].nRead = calls[p].nRead
      ]_vars

\* A call that issued two refresh requests, one read and one write.
C19_Witness ==
    \E p \in Procs : /\ calls[p].pc = "update"
                     /\ calls[p].nRef = 2
                     /\ calls[p].nRead = 1
                     /\ calls[p].nWrite = 1

----------------------------------------------------------------------------
\* Caller p issues its findOne or updateOne in this step.
Issues(p) ==
    /\ calls[p].pc \notin {"find", "update"}
    /\ calls'[p].pc \in {"find", "update"}

(* C20: ensureConnected() resolves only to a non-null handle whose           *)
(* connect() has completed successfully: a findOne or updateOne is issued    *)
(* only on a handle that is connected and on which no close() was called, a  *)
(* caller whose attempt succeeds gets its handle, and a handle is created    *)
(* once, by the attempt of its connect cycle.                                *)
C20_OnlyConnectedHandles ==
    [][/\ \A p \in Procs : Issues(p) =>
             /\ calls'[p].client # 0
             /\ hstate'[calls'[p].client] = "connected"
             /\ closing[calls'[p].client] = 0
       /\ \A p \in Procs : AttemptResolvesFor(p) =>
             /\ calls'[p].pc \in {"find", "update"}
             /\ calls'[p].client = connecting
       /\ \A h \in Handles : (hstate'[h] = "pending" /\ hstate[h] # "pending") =>
             /\ hstate[h] = "unused"
             /\ connecting' = h
             /\ mongoClient' = h
      ]_vars

\* Supporting C20: a caller that found this.mongoClient null and awaited the
\* attempt is never issued on a handle whose connect() is pending or failed.
C20_WaitersNeverOnUnconnected ==
    [][\A p \in Procs :
          (Issues(p) /\ calls[p].pc \in {"connR", "connW"}) =>
             hstate'[calls'[p].client] = "connected"
      ]_vars

=============================================================================
